---- MODULE Spec2Model ----
(***************************************************************************)
(* AdHawk MindLink eye tracker adapter for ioHub.                          *)
(*                                                                         *)
(*   eyetracker.py                 EyeTracker: connection, camera, screen  *)
(*                                 tracking, recording, stream callbacks   *)
(*   adhawkCalibrationGraphics.py  AdhawkPsychopyCalibrationGraphics:      *)
(*                                 the blocking calibration session        *)
(*                                                                         *)
(* Everything runs on one gevent hub.  The main greenlet executes the API  *)
(* calls; SDK callbacks and keyboard events run only while the main        *)
(* greenlet is parked in gevent.sleep (or is idle between two API calls).  *)
(* An action of the main greenlet is therefore the code between two        *)
(* gevent.sleep calls, and pc names the sleep the main greenlet is parked  *)
(* in.  Every callback is an action of its own.                            *)
(*                                                                         *)
(* Time is time.perf_counter() in whole seconds.                           *)
(***************************************************************************)
EXTENDS Integers, Sequences, FiniteSets, TLC

VARIABLES
    now,                          \* time.perf_counter()
    pc,                           \* where the main greenlet is parked
    cont,                         \* what the main greenlet resumes after a camera wait
    start_time,                   \* start_time of the polling loop in progress
    \* ---- EyeTracker fields
    screen_tracking,              \* _screen_tracking (enable_screen_tracking)
    aruco_info,                   \* _aruco_info: the marker ids of the sheet
    screen_board,                 \* the marker ids of the last register_screen_board request
    display_device,               \* _display_device: None or its coordinate bounds
    calibration_type,             \* the 'type' setting of the calibration configuration
    connected,                    \* _connected
    camera_started,               \* _camera_started
    is_reporting_events,          \* _is_reporting_events
    latest_sample_timestamp,      \* _latest_sample_timestamp
    latest_gaze_in_screen,        \* _latest_gaze_in_screen
    latest_binocular_gaze_data,   \* _latest_binocular_gaze_data
    latest_pupil_diameter_data,   \* _latest_pupil_diameter_data
    nativeEventBuffer,            \* the host's buffer of native events
    latest_sample,                \* _latest_sample
    latest_gaze_position,         \* _latest_gaze_position
    \* ---- helpers.vector_to_angles
    vec,                          \* xpos, ypos, zpos of the last call
    rotation_order,               \* rotation_order of the last call
    angles,                       \* what the last call returned
    \* ---- the SDK client, seen from the adapter
    requests,                     \* requests issued by the API call in progress (or the last one)
    connect_cbs,                  \* start() requests whose connect_cb has not fired yet
    camera_cbs,                   \* start_camera_capture requests not yet answered
    gui_cbs,                      \* autotune_gui/start_calibration_gui requests not yet acknowledged
    events_handler,               \* the handler registered for the EVENTS stream
    \* ---- AdhawkPsychopyCalibrationGraphics fields
    autotune_ended,               \* _autotune_ended
    calibration_ended,            \* _calibration_ended
    autotune_successful,          \* _autotune_successful
    calibration_successful,       \* _calibration_successful
    timeout_time_start,           \* _timeout_time_start
    msg_queue,                    \* _msg_queue
    listening,                    \* the session is a listener of the keyboard device
    res,                          \* res of runCalibration (line 89)
    cal_returned,                 \* runCalibration of the session has returned
    cal_result,                   \* what it returned
    \* ---- what the API calls returned
    last_call,                    \* the last API call that returned: [op, arg, ret, conn]
    prev_call,                    \* the API call that returned before the one in progress (or the last)
    \* ---- history of the run, read by the properties only
    h_calls,                      \* number of API calls made
    h_keys,                       \* number of key presses delivered to the session
    h_events,                     \* number of SDK events delivered to the session
    h_first_msg,                  \* the first message put on _msg_queue
    h_progress,                   \* how far request/result pairs got, see Progress
    h_autotune_failed,            \* the autotune request was answered by a failure
    h_esc_autotune,               \* escape was pressed while autotune was in progress
    h_esc_phase,                  \* escape was pressed during the autotune or calibration wait
    h_blink_lost,                 \* a blink was delivered while recording and not buffered
    h_unpumped,                   \* a wait loop of the session slept without calling _msgPump
    h_delivered,                  \* what each secondary channel delivered last, see Delivered
    h_expected                    \* for each buffered event, Delivered when it was buffered

clockVars == <<now>>
mainVars == <<pc, cont, start_time>>
eventVars == <<events_handler, h_blink_lost>>
configVars == <<screen_tracking, display_device, calibration_type>>
angleVars == <<vec, rotation_order, angles>>
markerVars == <<aruco_info, screen_board>>
trackerVars == <<configVars, angleVars, markerVars, eventVars, connected,
                 camera_started, is_reporting_events>>
channelVars == <<latest_sample_timestamp, latest_gaze_in_screen, latest_binocular_gaze_data,
                 latest_pupil_diameter_data, nativeEventBuffer, h_delivered, h_expected>>
sampleVars == <<latest_sample, latest_gaze_position>>
streamVars == <<channelVars, sampleVars>>
sdkVars == <<requests, connect_cbs, camera_cbs, gui_cbs>>
calFlags == <<autotune_ended, calibration_ended, autotune_successful, calibration_successful>>
calVars == <<autotune_ended, calibration_ended, autotune_successful, calibration_successful,
             timeout_time_start, msg_queue, listening, res, cal_returned, cal_result>>
callVars == <<last_call, prev_call, h_calls>>
calHist == <<h_keys, h_events, h_first_msg, h_progress, h_autotune_failed, h_esc_autotune,
             h_esc_phase, h_unpumped>>

vars == <<now, pc, cont, start_time, screen_tracking, aruco_info, screen_board, display_device,
          calibration_type, h_unpumped, vec, rotation_order, angles,
          events_handler, h_blink_lost, connected,
          camera_started, is_reporting_events, latest_sample_timestamp, latest_gaze_in_screen,
          latest_binocular_gaze_data, latest_pupil_diameter_data, nativeEventBuffer,
          latest_sample, latest_gaze_position, requests,
          connect_cbs, camera_cbs, gui_cbs, autotune_ended, calibration_ended,
          autotune_successful, calibration_successful, timeout_time_start, msg_queue,
          listening, res, cal_returned, cal_result, last_call, prev_call, h_calls, h_keys, h_events,
          h_first_msg, h_progress, h_autotune_failed, h_esc_autotune, h_esc_phase,
          h_delivered, h_expected>>

(***************************************************************************)
(* Bounds of the model.                                                    *)
(***************************************************************************)
MaxTime == 8        \* the clock stops at MaxTime
MaxKeys == 2        \* key presses delivered to one calibration session
MaxEvents == 3      \* SDK events delivered to one calibration session
MaxCalls == 4       \* API calls made on the device after its construction

(***************************************************************************)
(* Program constants.                                                      *)
(***************************************************************************)
timeout == 5        \* AdhawkPsychopyCalibrationGraphics.timeout, seconds
max_wait_time == 1  \* EyeTracker._max_wait_time, seconds

\* runCalibration, lines 80-83: the point count of each calibration scheme
calibration_methods ==
    [t \in {"THREE_POINTS", "FIVE_POINTS", "NINE_POINTS", "THIRTEEN_POINTS"} |->
        CASE t = "THREE_POINTS" -> 3
          [] t = "FIVE_POINTS" -> 5
          [] t = "NINE_POINTS" -> 9
          [] t = "THIRTEEN_POINTS" -> 13]

\* The values the 'type' setting can be given: the schemes of the table, and
\* one value standing for every other one
CalibrationTypes == DOMAIN calibration_methods \cup {"OTHER"}

\* adhawkapi.AckCodes: SUCCESS, and one code standing for every other one
AckCodes == {"SUCCESS", "FAILURE"}

\* adhawkapi.Events, the two kinds the adapter looks at
Events == {"PROCEDURE_ENDED", "BLINK"}

\* The keys _handleEvent tells apart, and one standing for every other key
Keys == {" ", "space", "escape", "a"}

\* _display_device is None, or its getCoordBounds(): <<left, top, right, bottom>>
None == <<>>

MaxBuffer == 2      \* native events the host buffer holds before it is read

\* Arguments of the stream callbacks.  Normalized screen positions are counted
\* in halves (0, 1, 2 stand for 0.0, 0.5, 1.0), and so are display positions.
GazeData == {<<2, 0, 0, -1, 3>>}                     \* timestamp, vec_x, vec_y, vec_z, vergence
PerEyeGaze == {<<1, 2, 3, 4, 5, 6>>, <<6, 5, 4, 3, 2, 1>>}
ScreenPositions == {<<0, 2>>, <<2, 1>>, <<1, 1>>}
PupilDiameters == {<<3, 4>>}
BlinkData == {<<3, 1>>}                              \* timestamp, duration

\* History: no secondary channel has delivered anything.
NothingDelivered == [screen |-> <<>>, per_eye |-> <<>>, pupil |-> <<>>]

(***************************************************************************)
(* The clock.                                                              *)
(***************************************************************************)
Tick ==
    /\ now < MaxTime
    /\ now' = now + 1
    /\ UNCHANGED <<mainVars, trackerVars, streamVars, sdkVars, calVars, callVars, calHist>>

(***************************************************************************)
(* EyeTracker: connection, camera, screen tracking, recording              *)
(***************************************************************************)
\* The marker sheets generate_markers can find: none, an empty one, one with
\* two markers (the ids)
MarkerSheets == {{}, {0, 1}}

\* MARKER_INFO_DEFAULT: a table without rows
MARKER_INFO_DEFAULT == {}

isConnected == connected

\* The sleeps of runCalibration the main greenlet can be parked in
SessionPcs == {"await", "hide", "autotune_wait", "calib_wait"}

\* The sleeps during which the callbacks of the SDK run, and the idle time
\* between two API calls
Sleeps == {"idle", "connect_wait", "camera_wait"} \cup SessionPcs

\* Device.isReportingEvents of the host framework
isReportingEvents == is_reporting_events

\* An API call starts only while the clock leaves its polling loops the time
\* to give up.
CanCall ==
    /\ pc = "idle"
    /\ h_calls < MaxCalls
    /\ now + 2 * (max_wait_time + 1) <= MaxTime

\* Polling loops that never give up
wait_never_over == FALSE

\* The polling loops of setConnectionState and _start_camera give up when
\* this holds (lines 156 and 471).
wait_is_over == (now - start_time) > max_wait_time

\* What an API call leaves behind when it returns
Returned(op, arg, ret, conn) == [op |-> op, arg |-> arg, ret |-> ret, conn |-> conn]

\* A setConnectionState that connects whenever it is asked to
connects_always(enable) == enable

\* setConnectionState, line 143: whether the call connects
connects(enable) == enable /\ ~isConnected

\* A setConnectionState that disconnects whenever it is asked to
disconnects_always(enable) == ~enable

\* setConnectionState, line 163: whether the call disconnects
disconnects(enable) == ~enable /\ isConnected

\* setConnectionState, lines 145-152: the handlers registered and the start request
connect_requests ==
    << "register_stream_handler(EXTENDED_GAZE)", "register_stream_handler(PER_EYE_GAZE)",
       "register_stream_handler(GAZE_IN_SCREEN)", "register_stream_handler(PUPIL_DIAMETER)",
       "register_stream_handler(EVENTS)", "start" >>

\* setConnectionState, lines 165-168: the requests of a disconnect
disconnect_requests ==
    IF screen_tracking
    THEN <<"stop_screen_tracking", "stop_camera_capture", "shutdown">>
    ELSE <<"shutdown">>

\* setConnectionState(enable) up to its first gevent.sleep (line 158), or to
\* its return when it does not wait.  reqs is the request log at its start.
setConnectionState_body(enable, reqs) ==
    IF connects(enable)
    THEN /\ requests' = reqs \o connect_requests
         /\ events_handler' = "eyetracker"
         /\ connect_cbs' = connect_cbs + 1
         /\ start_time' = now
         /\ pc' = "connect_wait"
         /\ UNCHANGED <<connected, last_call>>
    ELSE IF disconnects(enable)
         THEN /\ requests' = reqs \o disconnect_requests
              /\ connected' = FALSE
              /\ last_call' = Returned("setConnectionState", enable, FALSE, connected)
              /\ pc' = "idle"
              /\ UNCHANGED <<connect_cbs, start_time, events_handler>>
         ELSE /\ requests' = reqs
              /\ last_call' = Returned("setConnectionState", enable, connected, connected)
              /\ pc' = "idle"
              /\ UNCHANGED <<connected, connect_cbs, start_time, events_handler>>

\* __init__: line 85, setConnectionState(True), with the fields as lines 66-84
\* set them.
EyeTracker_init ==
    /\ pc = "init"
    /\ now + 2 * (max_wait_time + 1) <= MaxTime
    /\ setConnectionState_body(TRUE, <<>>)
    /\ UNCHANGED <<clockVars, cont, configVars, angleVars, markerVars, h_blink_lost,
                   camera_started, is_reporting_events, streamVars, camera_cbs, gui_cbs,
                   calVars, prev_call, h_calls, calHist>>

setConnectionState(enable) ==
    /\ CanCall
    /\ h_calls' = h_calls + 1
    /\ prev_call' = last_call
    /\ setConnectionState_body(enable, <<>>)
    /\ UNCHANGED <<clockVars, cont, configVars, angleVars, markerVars, h_blink_lost,
                   camera_started, is_reporting_events, streamVars, camera_cbs, gui_cbs,
                   calVars, calHist>>

\* The polling loop of setConnectionState (lines 155-158) after a sleep, and
\* the return (lines 160-171) when it is left.
setConnectionState_wake ==
    /\ pc = "connect_wait"
    /\ IF ~connected /\ ~wait_is_over
       THEN UNCHANGED <<pc, last_call>>
       ELSE /\ pc' = "idle"
            /\ last_call' = Returned("setConnectionState", TRUE, connected, FALSE)
    /\ UNCHANGED <<clockVars, cont, start_time, trackerVars, streamVars, sdkVars, calVars,
                   prev_call, h_calls, calHist>>

\* _handle_connect, lines 447-460: the streams and the event it turns on
stream_control_requests ==
    IF screen_tracking
    THEN << "set_stream_control(EXTENDED_GAZE)", "set_stream_control(PER_EYE_GAZE)",
            "set_stream_control(GAZE_IN_SCREEN)", "set_stream_control(PUPIL_DIAMETER)",
            "set_event_control(BLINK)" >>
    ELSE <<>>

\* _handle_connect: the connect_cb of a start request
handle_connect(error) ==
    /\ connect_cbs > 0
    /\ pc \in Sleeps
    /\ connect_cbs' = connect_cbs - 1
    /\ IF ~error
       THEN /\ connected' = TRUE
            /\ requests' = requests \o stream_control_requests
       ELSE UNCHANGED <<connected, requests>>
    /\ UNCHANGED <<clockVars, mainVars, configVars, angleVars, markerVars, eventVars,
                   camera_started, is_reporting_events, streamVars, camera_cbs, gui_cbs,
                   calVars, callVars, calHist>>

\* _handle_camera_start_response: the answer to a start_camera_capture request
handle_camera_start_response(response) ==
    /\ camera_cbs > 0
    /\ pc \in Sleeps
    /\ camera_cbs' = camera_cbs - 1
    /\ camera_started' = (response = "SUCCESS")
    /\ UNCHANGED <<clockVars, mainVars, configVars, angleVars, markerVars, eventVars,
                   connected, is_reporting_events, streamVars, requests, connect_cbs,
                   gui_cbs, calVars, callVars, calHist>>

\* A registration of the screen board that does not look at the marker table
initiate_screen_tracking_always(reqs) == Append(reqs, "register_screen_board")

\* _initiate_screen_tracking: the request log after it
initiate_screen_tracking(reqs) ==
    IF aruco_info = {} THEN reqs ELSE Append(reqs, "register_screen_board")

\* _initiate_screen_tracking, lines 436-442: the markers of the request, one
\* (x, y, size) triple for each id of the table
registered_screen_board ==
    IF initiate_screen_tracking(<<>>) = <<>> THEN screen_board ELSE aruco_info

\* _start_camera when the camera is not started: the request, and the first
\* sleep of the polling loop (line 473); k is what the caller goes on with.
start_camera_wait(reqs, k) ==
    /\ requests' = Append(reqs, "start_camera_capture")
    /\ camera_cbs' = camera_cbs + 1
    /\ start_time' = now
    /\ pc' = "camera_wait"
    /\ cont' = k

\* A guard of setRecordingState that does not look at the connection
starts_recording_unconnected(recording) == recording /\ screen_tracking

\* setRecordingState, line 313: whether the call turns recording on
starts_recording(recording) == recording /\ connected /\ screen_tracking

\* setRecordingState, lines 317-318.  The device is connected here as it was
\* at line 313: only an API call disconnects it.
recording_on(reqs) ==
    /\ requests' = reqs
    /\ is_reporting_events' = TRUE        \* and enableEventReporting(True)
    /\ last_call' = Returned("setRecordingState", TRUE, TRUE, connected)
    /\ pc' = "idle"
    /\ cont' = "none"

\* setRecordingState, line 316: _start_screen_tracking, and lines 317-318
setRecordingState_screen(reqs) ==
    IF ~camera_started
    THEN /\ start_camera_wait(reqs, "start_screen_tracking")
         /\ UNCHANGED <<is_reporting_events, last_call>>
    ELSE /\ recording_on(Append(reqs, "start_screen_tracking"))
         /\ UNCHANGED <<camera_cbs, start_time>>

\* A stop of the recording that keeps the latest sample
sample_kept_after_stop == latest_sample

\* setRecordingState, line 322: the latest sample after a stop
sample_after_stop == None

\* setRecordingState(recording) up to its first gevent.sleep, or to its return
setRecordingState(recording) ==
    /\ CanCall
    /\ h_calls' = h_calls + 1
    /\ prev_call' = last_call
    /\ IF starts_recording(recording)
       THEN /\ IF ~camera_started
               THEN /\ start_camera_wait(<<>>, "initiate_screen_tracking")
                    /\ UNCHANGED <<is_reporting_events, last_call, screen_board>>
               ELSE /\ setRecordingState_screen(initiate_screen_tracking(<<>>))
                    /\ screen_board' = registered_screen_board
            /\ aruco_info' = IF aruco_info = {} THEN MARKER_INFO_DEFAULT ELSE aruco_info
            /\ UNCHANGED sampleVars
       ELSE /\ requests' = <<"stop_camera_capture", "stop_screen_tracking">>
            /\ latest_sample' = sample_after_stop
            /\ latest_gaze_position' = None
            /\ is_reporting_events' = FALSE  \* and enableEventReporting(False)
            /\ last_call' = Returned("setRecordingState", recording, FALSE, connected)
            /\ UNCHANGED <<pc, cont, start_time, camera_cbs, aruco_info, screen_board>>
    /\ UNCHANGED <<clockVars, configVars, angleVars, eventVars, connected, camera_started,
                   channelVars, connect_cbs, gui_cbs, calVars, calHist>>

\* An end of runSetupProcedure that leaves the camera on whatever the outcome
runSetupProcedure_finish_camera_kept(reqs) ==
    /\ requests' = reqs
    /\ last_call' = Returned("runSetupProcedure", TRUE,
                             IF cal_result THEN "True" ELSE "False", TRUE)
    /\ pc' = "idle"
    /\ cont' = "none"

\* runSetupProcedure, lines 292-298, from the start_screen_tracking request
\* on.  What runSetupProcedure returns is recorded as "True", "False" or "None".
runSetupProcedure_finish(reqs) ==
    /\ requests' = IF cal_result THEN reqs ELSE Append(reqs, "stop_camera_capture")
    /\ last_call' = Returned("runSetupProcedure", TRUE,
                             IF cal_result THEN "True" ELSE "False", TRUE)
    /\ pc' = "idle"
    /\ cont' = "none"

\* The polling loop of _start_camera (lines 470-473) after a sleep, and the
\* caller's code that follows when it is left.
start_camera_wake ==
    /\ pc = "camera_wait"
    /\ IF ~camera_started /\ ~wait_is_over
       THEN UNCHANGED <<pc, cont, start_time, requests, camera_cbs, is_reporting_events,
                       last_call, screen_board>>
       ELSE CASE cont = "initiate_screen_tracking" ->
                     /\ setRecordingState_screen(initiate_screen_tracking(requests))
                     /\ screen_board' = registered_screen_board
              [] cont = "start_screen_tracking" ->
                     /\ recording_on(Append(requests, "start_screen_tracking"))
                     /\ UNCHANGED <<camera_cbs, start_time, screen_board>>
              [] cont = "runSetupProcedure" ->
                     \* lines 280-283
                     /\ IF camera_started
                        THEN pc' = "setup_calibrate" /\ UNCHANGED last_call
                        ELSE /\ pc' = "idle"
                             /\ last_call' = Returned("runSetupProcedure", TRUE, "None", TRUE)
                     /\ cont' = "none"
                     /\ UNCHANGED <<requests, camera_cbs, start_time, is_reporting_events,
                                    screen_board>>
              [] cont = "runSetupProcedure_screen" ->
                     /\ runSetupProcedure_finish(Append(requests, "start_screen_tracking"))
                     /\ UNCHANGED <<camera_cbs, start_time, is_reporting_events, screen_board>>
    /\ UNCHANGED <<clockVars, configVars, angleVars, aruco_info, eventVars, connected,
                   camera_started, streamVars, connect_cbs, gui_cbs, calVars, prev_call,
                   h_calls, calHist>>

\* runSetupProcedure up to its first gevent.sleep, or to the construction of
\* the calibration session (line 283)
runSetupProcedure ==
    /\ CanCall
    /\ h_calls' = h_calls + 1
    /\ prev_call' = last_call
    /\ IF ~isConnected
       THEN /\ requests' = <<>>
            /\ last_call' = Returned("runSetupProcedure", TRUE, "False", FALSE)
            /\ UNCHANGED <<pc, cont, start_time, camera_cbs>>
       ELSE IF ~camera_started
            THEN /\ start_camera_wait(<<"set_camera_user_settings">>, "runSetupProcedure")
                 /\ UNCHANGED last_call
            ELSE /\ requests' = <<"set_camera_user_settings">>
                 /\ pc' = "setup_calibrate"
                 /\ UNCHANGED <<cont, start_time, camera_cbs, last_call>>
    /\ UNCHANGED <<clockVars, trackerVars, streamVars, connect_cbs, gui_cbs, calVars, calHist>>

\* runSetupProcedure, lines 287-298, after runCalibration has returned
runSetupProcedure_return ==
    /\ pc = "cal_done"
    /\ IF ~screen_tracking
       THEN /\ runSetupProcedure_finish(Append(requests, "stop_camera_capture"))
            /\ UNCHANGED <<camera_cbs, start_time>>
       ELSE IF ~camera_started
            THEN /\ start_camera_wait(requests, "runSetupProcedure_screen")
                 /\ UNCHANGED last_call
            ELSE /\ runSetupProcedure_finish(Append(requests, "start_screen_tracking"))
                 /\ UNCHANGED <<camera_cbs, start_time>>
    /\ UNCHANGED <<clockVars, trackerVars, streamVars, connect_cbs, gui_cbs, calVars,
                   prev_call, h_calls, calHist>>

\* generate_markers: the sheet is missing (found = FALSE) or holds rows.  With
\* rows and no display device, line 407 raises before _aruco_info is assigned.
generate_markers(found, rows) ==
    /\ CanCall
    /\ h_calls' = h_calls + 1
    /\ prev_call' = last_call
    /\ aruco_info' = IF ~found \/ rows = {} THEN MARKER_INFO_DEFAULT
                     ELSE IF display_device = None THEN aruco_info ELSE rows
    /\ last_call' = Returned("generate_markers", found,
                             found /\ rows # {} /\ display_device # None, connected)
    /\ requests' = <<>>
    /\ UNCHANGED <<clockVars, mainVars, configVars, angleVars, screen_board, eventVars,
                   connected, camera_started, is_reporting_events, streamVars, connect_cbs,
                   camera_cbs, gui_cbs, calVars, calHist>>

\* The state in which __init__ calls setConnectionState(True) (lines 66-84)
Init ==
    /\ now = 1
    /\ pc = "init"
    /\ cont = "none"
    /\ start_time = 0
    /\ screen_tracking \in BOOLEAN
    /\ aruco_info = MARKER_INFO_DEFAULT
    /\ screen_board = {}
    /\ display_device \in {None, <<-1, 1, 1, -1>>}
    /\ calibration_type = "NINE_POINTS"
    /\ connected = FALSE
    /\ camera_started = FALSE
    /\ is_reporting_events = FALSE
    /\ latest_sample_timestamp = 0
    /\ latest_gaze_in_screen = <<0, 0>>
    /\ latest_binocular_gaze_data = <<0, 0, 0, 0, 0, 0>>
    /\ latest_pupil_diameter_data = <<0, 0>>
    /\ nativeEventBuffer = <<>>
    /\ latest_sample = None
    /\ latest_gaze_position = None
    /\ requests = <<>>
    /\ connect_cbs = 0
    /\ camera_cbs = 0
    /\ gui_cbs = {}
    /\ events_handler = "none"
    /\ autotune_ended = FALSE
    /\ calibration_ended = FALSE
    /\ autotune_successful = FALSE
    /\ calibration_successful = FALSE
    /\ timeout_time_start = 0
    /\ msg_queue = <<>>
    /\ listening = FALSE
    /\ res = FALSE
    /\ cal_returned = FALSE
    /\ cal_result = FALSE
    /\ last_call = Returned("none", FALSE, FALSE, FALSE)
    /\ prev_call = Returned("none", FALSE, FALSE, FALSE)
    /\ h_calls = 0
    /\ h_keys = 0
    /\ h_events = 0
    /\ h_first_msg = "none"
    /\ h_progress = 0
    /\ h_autotune_failed = FALSE
    /\ h_esc_autotune = FALSE
    /\ h_esc_phase = FALSE
    /\ h_blink_lost = FALSE
    /\ h_unpumped = FALSE
    /\ vec = <<0, 0, -1>>
    /\ rotation_order = "XY"
    /\ angles = << <<0, 1>>, <<0, 1>> >>
    /\ h_delivered = NothingDelivered
    /\ h_expected = <<>>

Next ==
    \/ EyeTracker_init
    \/ \E enable \in BOOLEAN : setConnectionState(enable)
    \/ setConnectionState_wake
    \/ \E error \in BOOLEAN : handle_connect(error)
    \/ \E recording \in BOOLEAN : setRecordingState(recording)
    \/ start_camera_wake
    \/ \E response \in AckCodes : handle_camera_start_response(response)
    \/ \E found \in BOOLEAN, rows \in MarkerSheets : generate_markers(found, rows)
    \/ Tick

Spec == Init /\ [][Next]_vars

\* The hub runs a greenlet whose sleep has ended, and time passes.
FairSpec ==
    /\ Spec
    /\ WF_vars(EyeTracker_init)
    /\ WF_vars(setConnectionState_wake)
    /\ WF_vars(start_camera_wake)
    /\ WF_vars(Tick)

(***************************************************************************)
(* EyeTracker: the stream callbacks                                        *)
(***************************************************************************)
\* A conversion that does not turn the vertical axis over
eyeTrackerToDisplayCoords_unflipped(eyetracker_point) ==
    IF display_device = None
    THEN <<0, 0>>
    ELSE LET gaze_x == eyetracker_point[1]
             gaze_y == eyetracker_point[2]
             w == display_device[3] - display_device[1]
             h == display_device[2] - display_device[4]
         IN  <<w * (gaze_x - 1), h * (gaze_y - 1)>>

\* _eyeTrackerToDisplayCoords
eyeTrackerToDisplayCoords(eyetracker_point) ==
    IF display_device = None
    THEN <<0, 0>>
    ELSE LET gaze_x == eyetracker_point[1]
             gaze_y == eyetracker_point[2]
             w == display_device[3] - display_device[1]
             h == display_device[2] - display_device[4]
         IN  <<w * (gaze_x - 1), h * (1 - gaze_y)>>

\* History: the tail of a sample built from what the secondary channels
\* delivered last, zeros standing for a channel that delivered nothing.
Delivered ==
    (IF h_delivered.screen = <<>> THEN <<0, 0>>
     ELSE eyeTrackerToDisplayCoords(h_delivered.screen))
    \o (IF h_delivered.per_eye = <<>> THEN <<0, 0, 0, 0, 0, 0>> ELSE h_delivered.per_eye)
    \o (IF h_delivered.pupil = <<>> THEN <<0, 0>> ELSE h_delivered.pupil)

\* A handler that forwards every native event to the buffer
handleNativeEvent_always(native_event_data) == Append(nativeEventBuffer, native_event_data)

\* _handleNativeEvent: the host's buffer after it
handleNativeEvent(native_event_data) ==
    IF isReportingEvents
    THEN Append(nativeEventBuffer, native_event_data)    \* _addNativeEventToBuffer
    ELSE nativeEventBuffer

\* _displayToEyeTrackerCoords.  Its results are fractions <<numerator,
\* denominator>>; the display position it is given is counted in halves.
displayToEyeTrackerCoords(display_x, display_y) ==
    IF display_device = None
    THEN << <<0, 1>>, <<0, 1>> >>
    ELSE LET w == display_device[3] - display_device[1]
             h == display_device[2] - display_device[4]
         IN  << <<display_x + 1, 2 * w>>, <<h - display_y, 2 * h>> >>

\* A stream callback runs while the main greenlet sleeps or is idle, on a
\* connected device, and while the host buffer has room for its event.
CanStream ==
    /\ pc \in {"idle", "connect_wait", "camera_wait"}
    /\ connected
    /\ Len(nativeEventBuffer) < MaxBuffer

\* What a callback that buffers no event leaves alone
streamRest ==
    <<clockVars, mainVars, trackerVars, sampleVars, sdkVars, calVars, callVars, calHist>>

\* History: Delivered is recorded for each event that enters the buffer.
Expect(buffer) ==
    IF Len(buffer) > Len(nativeEventBuffer) THEN Append(h_expected, Delivered) ELSE h_expected

\* _handle_gaze_data: the primary gaze stream
handle_gaze_data(d) ==
    /\ CanStream
    /\ latest_sample_timestamp' = d[1]
    /\ nativeEventBuffer' =
           handleNativeEvent(<<"BINOCULAR_EYE_SAMPLE">> \o d \o latest_gaze_in_screen
                             \o latest_binocular_gaze_data \o latest_pupil_diameter_data)
    /\ h_expected' = Expect(nativeEventBuffer')
    /\ UNCHANGED <<latest_gaze_in_screen, latest_binocular_gaze_data,
                   latest_pupil_diameter_data, h_delivered, streamRest>>

\* A per-eye gaze callback that loses what it is given
handle_binocular_gaze_data_lost(d) ==
    /\ CanStream
    /\ h_delivered' = [h_delivered EXCEPT !.per_eye = d]
    /\ UNCHANGED <<latest_sample_timestamp, latest_gaze_in_screen, latest_binocular_gaze_data,
                   latest_pupil_diameter_data, nativeEventBuffer, h_expected, streamRest>>

\* _handle_binocular_gaze_data
handle_binocular_gaze_data(d) ==
    /\ CanStream
    /\ latest_binocular_gaze_data' = d
    /\ h_delivered' = [h_delivered EXCEPT !.per_eye = d]
    /\ UNCHANGED <<latest_sample_timestamp, latest_gaze_in_screen,
                   latest_pupil_diameter_data, nativeEventBuffer, h_expected, streamRest>>

\* _handle_gaze_in_screen_data
handle_gaze_in_screen_data(p) ==
    /\ CanStream
    /\ latest_gaze_in_screen' = eyeTrackerToDisplayCoords(p)
    /\ h_delivered' = [h_delivered EXCEPT !.screen = p]
    /\ UNCHANGED <<latest_sample_timestamp, latest_binocular_gaze_data,
                   latest_pupil_diameter_data, nativeEventBuffer, h_expected, streamRest>>

\* A pupil-diameter callback that also forwards what it is given to the buffer
handle_pupil_diameter_buffered(d) ==
    /\ CanStream
    /\ latest_pupil_diameter_data' = d
    /\ h_delivered' = [h_delivered EXCEPT !.pupil = d]
    /\ nativeEventBuffer' = handleNativeEvent(<<"PUPIL_DIAMETER">> \o d)
    /\ h_expected' = Expect(nativeEventBuffer')
    /\ UNCHANGED <<latest_sample_timestamp, latest_gaze_in_screen,
                   latest_binocular_gaze_data, streamRest>>

\* _handle_pupil_diameter
handle_pupil_diameter(d) ==
    /\ CanStream
    /\ latest_pupil_diameter_data' = d
    /\ h_delivered' = [h_delivered EXCEPT !.pupil = d]
    /\ UNCHANGED <<latest_sample_timestamp, latest_gaze_in_screen,
                   latest_binocular_gaze_data, nativeEventBuffer, h_expected, streamRest>>

\* _handle_events: the event stream of the device
handle_events(event_type, d) ==
    /\ CanStream
    /\ events_handler = "eyetracker"
    /\ nativeEventBuffer' = IF event_type = "BLINK"
                            THEN handleNativeEvent(<<"BLINK_END">> \o d)
                            ELSE nativeEventBuffer
    /\ h_expected' = Expect(nativeEventBuffer')
    /\ h_blink_lost' = (h_blink_lost \/ (/\ event_type = "BLINK" /\ is_reporting_events
                                          /\ nativeEventBuffer' = nativeEventBuffer))
    /\ UNCHANGED <<latest_sample_timestamp, latest_gaze_in_screen,
                   latest_binocular_gaze_data, latest_pupil_diameter_data, h_delivered,
                   clockVars, mainVars, events_handler, configVars, angleVars, markerVars,
                   connected, camera_started, is_reporting_events, sampleVars, sdkVars,
                   calVars, callVars, calHist>>

\* np.degrees(vector_to_angles(x, y, z)), kept as the vector it is taken of
gaze_angles_deg(x, y, z) == <<"angles", x, y, z>>

\* A translation that shapes the record and keeps nothing
getIOHubEventObject_forgetful ==
    /\ pc \in {"idle", "connect_wait", "camera_wait"}
    /\ nativeEventBuffer # <<>>
    /\ nativeEventBuffer' = Tail(nativeEventBuffer)
    /\ h_expected' = Tail(h_expected)
    /\ UNCHANGED <<latest_sample_timestamp, latest_gaze_in_screen, latest_binocular_gaze_data,
                   latest_pupil_diameter_data, h_delivered, streamRest>>

\* _getIOHubEventObject, lines 569-634: the host record of a binocular sample,
\* without the fields that are constants, event ids or the host's clock
bino_sample(e) ==
    << e[1], e[2],
       e[7], e[8], 0 - e[5], gaze_angles_deg(e[12], e[13], e[14]), e[16],
       e[7], e[8], e[5], gaze_angles_deg(e[9], e[10], e[11]), e[15] >>

\* _getIOHubEventObject, lines 557-573: the host record of a blink
blink_event(e) == <<e[1], e[2], e[3]>>

\* _getIOHubEventObject: the ioHub server takes the oldest native event off
\* the buffer and has it translated.
getIOHubEventObject ==
    /\ pc \in {"idle", "connect_wait", "camera_wait"}
    /\ nativeEventBuffer # <<>>
    /\ nativeEventBuffer' = Tail(nativeEventBuffer)
    /\ h_expected' = Tail(h_expected)
    /\ IF Head(nativeEventBuffer)[1] = "BINOCULAR_EYE_SAMPLE"
       THEN /\ latest_sample' = bino_sample(Head(nativeEventBuffer))
            /\ latest_gaze_position' = <<Head(nativeEventBuffer)[7], Head(nativeEventBuffer)[8]>>
       ELSE UNCHANGED sampleVars
    /\ UNCHANGED <<latest_sample_timestamp, latest_gaze_in_screen, latest_binocular_gaze_data,
                   latest_pupil_diameter_data, h_delivered, clockVars, mainVars, trackerVars,
                   sdkVars, calVars, callVars, calHist>>

\* A connected device with screen tracking, the camera started, recording: the
\* state a successful setRecordingState(True) that follows __init__ leaves.
StreamInit ==
    /\ now = 1
    /\ pc = "idle"
    /\ cont = "none"
    /\ start_time = 1
    /\ screen_tracking = TRUE
    /\ aruco_info = MARKER_INFO_DEFAULT
    /\ screen_board = {}
    /\ display_device \in {None, <<-1, 1, 1, -1>>}
    /\ calibration_type = "NINE_POINTS"
    /\ connected = TRUE
    /\ camera_started = TRUE
    /\ is_reporting_events = TRUE
    /\ latest_sample_timestamp = 0
    /\ latest_gaze_in_screen = <<0, 0>>
    /\ latest_binocular_gaze_data = <<0, 0, 0, 0, 0, 0>>
    /\ latest_pupil_diameter_data = <<0, 0>>
    /\ nativeEventBuffer = <<>>
    /\ latest_sample = None
    /\ latest_gaze_position = None
    /\ requests = <<"start_camera_capture", "start_screen_tracking">>
    /\ connect_cbs = 0
    /\ camera_cbs = 0
    /\ gui_cbs = {}
    /\ events_handler = "eyetracker"
    /\ autotune_ended = FALSE
    /\ calibration_ended = FALSE
    /\ autotune_successful = FALSE
    /\ calibration_successful = FALSE
    /\ timeout_time_start = 0
    /\ msg_queue = <<>>
    /\ listening = FALSE
    /\ res = FALSE
    /\ cal_returned = FALSE
    /\ cal_result = FALSE
    /\ last_call = Returned("setRecordingState", TRUE, TRUE, TRUE)
    /\ prev_call = Returned("setConnectionState", TRUE, TRUE, FALSE)
    /\ h_calls = 1
    /\ h_keys = 0
    /\ h_events = 0
    /\ h_first_msg = "none"
    /\ h_progress = 0
    /\ h_autotune_failed = FALSE
    /\ h_esc_autotune = FALSE
    /\ h_esc_phase = FALSE
    /\ h_blink_lost = FALSE
    /\ h_unpumped = FALSE
    /\ vec = <<0, 0, -1>>
    /\ rotation_order = "XY"
    /\ angles = << <<0, 1>>, <<0, 1>> >>
    /\ h_delivered = NothingDelivered
    /\ h_expected = <<>>

StreamNext ==
    \/ \E d \in GazeData : handle_gaze_data(d)
    \/ \E d \in PerEyeGaze : handle_binocular_gaze_data(d)
    \/ \E p \in ScreenPositions : handle_gaze_in_screen_data(p)
    \/ \E d \in PupilDiameters : handle_pupil_diameter(d)
    \/ \E event_type \in Events, d \in BlinkData : handle_events(event_type, d)
    \/ \E recording \in BOOLEAN : setRecordingState(recording)
    \/ getIOHubEventObject

StreamSpec == StreamInit /\ [][StreamNext]_vars

(***************************************************************************)
(* AdhawkPsychopyCalibrationGraphics                                       *)
(***************************************************************************)

\* History: how far the pairs (request, PROCEDURE_ENDED success after it) got.
\*   0  nothing yet                 1  autotune_gui issued
\*   2  ... then a success event    3  ... then start_calibration_gui issued
\*   4  ... then a success event
ProgressOnRequest(p, r) ==
    IF r = "autotune_gui" /\ p = 0 THEN 1
    ELSE IF r = "start_calibration_gui" /\ p = 2 THEN 3
    ELSE p

ProgressOnEnded(p, code) ==
    IF code = "SUCCESS" /\ p = 1 THEN 2
    ELSE IF code = "SUCCESS" /\ p = 3 THEN 4
    ELSE p

\* _should_stop, for a given value of _timeout_time_start
should_stop_at(t0) ==
    IF t0 = 0 THEN FALSE ELSE (now - t0) > timeout

should_stop == should_stop_at(timeout_time_start)

\* _clearAllEventBuffers
clearAllEventBuffers ==
    /\ nativeEventBuffer' = <<>>
    /\ h_expected' = <<>>

\* runCalibration, lines 117-119: the common exit
runCalibration_exit ==
    /\ listening' = FALSE                  \* _unregisterEventMonitors
    /\ clearAllEventBuffers
    /\ cal_returned' = TRUE
    /\ cal_result' = calibration_successful
    /\ pc' = "cal_done"

\* runCalibration, lines 85-86: num_points is assigned only for a type of the
\* table
num_points_bound == calibration_type \in DOMAIN calibration_methods

\* runCalibration, line 86
num_points == calibration_methods[calibration_type]

\* runCalibration, lines 108-119, up to the next gevent.sleep.  reqs, cbs and
\* prog are the request log, the requests not yet acknowledged and the
\* progress so far.
runCalibration_after_autotune(reqs, cbs, prog) ==
    IF autotune_successful
    THEN /\ timeout_time_start' = 0
         /\ IF num_points_bound
            THEN /\ requests' = Append(reqs, "start_calibration_gui")
                 /\ gui_cbs' = cbs \cup {"start_calibration_gui"}
                 /\ h_progress' = ProgressOnRequest(prog, "start_calibration_gui")
                 /\ IF ~calibration_ended /\ ~should_stop_at(0)
                    THEN /\ pc' = "calib_wait"
                         /\ UNCHANGED <<listening, nativeEventBuffer, h_expected,
                                        cal_returned, cal_result>>
                    ELSE runCalibration_exit
            ELSE \* line 111 reads num_points: UnboundLocalError leaves
                 \* runCalibration and runSetupProcedure
                 /\ pc' = "cal_raised"
                 /\ requests' = reqs
                 /\ gui_cbs' = cbs
                 /\ h_progress' = prog
                 /\ UNCHANGED <<listening, nativeEventBuffer, h_expected, cal_returned,
                                cal_result>>
    ELSE /\ requests' = reqs
         /\ gui_cbs' = cbs
         /\ h_progress' = prog
         /\ UNCHANGED timeout_time_start
         /\ runCalibration_exit

\* __init__ (lines 27-76) and runCalibration up to the first gevent.sleep of
\* _showSystemSetupMessageScreen (line 232): the message queue is empty on the
\* first pass of the loop.
runCalibration_enter ==
    /\ pc = "setup_calibrate"
    /\ requests' = requests \o <<"register_stream_handler(EVENTS)",
                                  "set_event_control(PROCEDURE_START_END)">>
    /\ autotune_ended' = FALSE
    /\ calibration_ended' = FALSE
    /\ autotune_successful' = FALSE
    /\ calibration_successful' = FALSE
    /\ timeout_time_start' = 0
    /\ msg_queue' = <<>>
    /\ listening' = TRUE                   \* _registerEventMonitors
    /\ clearAllEventBuffers
    /\ res' = FALSE
    /\ cal_returned' = FALSE
    /\ cal_result' = FALSE
    /\ pc' = "await"
    /\ h_keys' = 0
    /\ h_events' = 0
    /\ h_first_msg' = "none"
    /\ h_progress' = 0
    /\ h_autotune_failed' = FALSE
    /\ h_esc_autotune' = FALSE
    /\ h_esc_phase' = FALSE
    /\ h_unpumped' = FALSE
    /\ events_handler' = "session"        \* __init__, line 31
    /\ UNCHANGED <<clockVars, cont, start_time, h_blink_lost, configVars, angleVars,
                   markerVars, connected, camera_started, is_reporting_events,
                   latest_sample_timestamp, latest_gaze_in_screen,
                   latest_binocular_gaze_data, latest_pupil_diameter_data, sampleVars,
                   h_delivered, connect_cbs, camera_cbs, gui_cbs, callVars>>

\* _showSystemSetupMessageScreen: one pass of the loop after the sleep of
\* line 232; on SPACE or QUIT runCalibration goes on to the sleep of line 94.
showSystemSetupMessageScreen_wake ==
    /\ pc = "await"
    /\ IF msg_queue = <<>>
       THEN UNCHANGED <<pc, msg_queue, res, nativeEventBuffer, h_expected>>
       ELSE /\ msg_queue' = Tail(msg_queue)              \* _getNextMsg
            /\ res' = (Head(msg_queue) = "SPACE_KEY_ACTION")
            /\ clearAllEventBuffers
            /\ pc' = "hide"
    /\ UNCHANGED <<clockVars, cont, start_time, trackerVars, latest_sample_timestamp,
                   latest_gaze_in_screen, latest_binocular_gaze_data,
                   latest_pupil_diameter_data, sampleVars, h_delivered, sdkVars, calFlags,
                   timeout_time_start, listening, cal_returned, cal_result, callVars,
                   calHist>>

\* runCalibration after the sleep of line 94: lines 96-106 (and on, when the
\* autotune loop is not entered).
runCalibration_start ==
    /\ pc = "hide"
    /\ IF ~res
       THEN /\ autotune_ended' = TRUE
            /\ calibration_ended' = TRUE
            /\ cal_returned' = TRUE
            /\ cal_result' = calibration_successful
            /\ pc' = "cal_done"
            /\ UNCHANGED <<autotune_successful, calibration_successful, requests, gui_cbs,
                           timeout_time_start, listening, nativeEventBuffer, h_expected,
                           h_progress>>
       ELSE /\ UNCHANGED calFlags
            /\ IF ~autotune_ended /\ ~should_stop
               THEN /\ requests' = Append(requests, "autotune_gui")
                    /\ gui_cbs' = gui_cbs \cup {"autotune_gui"}
                    /\ h_progress' = ProgressOnRequest(h_progress, "autotune_gui")
                    /\ pc' = "autotune_wait"
                    /\ UNCHANGED <<timeout_time_start, listening, nativeEventBuffer,
                                   h_expected, cal_returned, cal_result>>
               ELSE runCalibration_after_autotune(
                        Append(requests, "autotune_gui"),
                        gui_cbs \cup {"autotune_gui"},
                        ProgressOnRequest(h_progress, "autotune_gui"))
    \* the loops of lines 105-106 and 114-115 sleep without calling _msgPump
    /\ h_unpumped' = (h_unpumped \/ pc' \in {"autotune_wait", "calib_wait"})
    /\ UNCHANGED <<clockVars, cont, start_time, trackerVars, latest_sample_timestamp,
                   latest_gaze_in_screen, latest_binocular_gaze_data,
                   latest_pupil_diameter_data, sampleVars, h_delivered, connect_cbs,
                   camera_cbs, msg_queue, res, callVars, h_keys, h_events, h_first_msg,
                   h_autotune_failed, h_esc_autotune, h_esc_phase>>

\* The autotune loop (lines 105-106) after a sleep, and on when it is left.
runCalibration_autotune_wake ==
    /\ pc = "autotune_wait"
    /\ IF ~autotune_ended /\ ~should_stop
       THEN UNCHANGED <<pc, requests, gui_cbs, h_progress, timeout_time_start, listening,
                       nativeEventBuffer, h_expected, cal_returned, cal_result>>
       ELSE runCalibration_after_autotune(requests, gui_cbs, h_progress)
    \* the loops of lines 105-106 and 114-115 sleep without calling _msgPump
    /\ h_unpumped' = (h_unpumped \/ pc' \in {"autotune_wait", "calib_wait"})
    /\ UNCHANGED <<clockVars, cont, start_time, trackerVars, latest_sample_timestamp,
                   latest_gaze_in_screen, latest_binocular_gaze_data,
                   latest_pupil_diameter_data, sampleVars, h_delivered, connect_cbs,
                   camera_cbs, calFlags, msg_queue, res, callVars, h_keys, h_events,
                   h_first_msg, h_autotune_failed, h_esc_autotune, h_esc_phase>>

\* The calibration loop (lines 114-115) after a sleep, and on when it is left.
runCalibration_calibration_wake ==
    /\ pc = "calib_wait"
    /\ IF ~calibration_ended /\ ~should_stop
       THEN UNCHANGED <<pc, listening, nativeEventBuffer, h_expected, cal_returned,
                       cal_result>>
       ELSE runCalibration_exit
    \* the loops of lines 105-106 and 114-115 sleep without calling _msgPump
    /\ h_unpumped' = (h_unpumped \/ pc' \in {"autotune_wait", "calib_wait"})
    /\ UNCHANGED <<clockVars, cont, start_time, trackerVars, latest_sample_timestamp,
                   latest_gaze_in_screen, latest_binocular_gaze_data,
                   latest_pupil_diameter_data, sampleVars, h_delivered, sdkVars, calFlags,
                   timeout_time_start, msg_queue, res, callVars, h_keys, h_events,
                   h_first_msg, h_progress, h_autotune_failed, h_esc_autotune, h_esc_phase>>

\* _handleEvent: a keyboard event delivered to the session.  Only key presses
\* are looked at; ek is the key.
handleEvent(ek) ==
    /\ pc \in SessionPcs
    /\ listening
    /\ h_keys < MaxKeys
    /\ ek = "escape" => now + timeout < MaxTime
    /\ h_keys' = h_keys + 1
    /\ IF ek = " " \/ ek = "space"
       THEN /\ msg_queue' = Append(msg_queue, "SPACE_KEY_ACTION")
            /\ clearAllEventBuffers
            /\ h_first_msg' = IF h_first_msg = "none" THEN "SPACE_KEY_ACTION" ELSE h_first_msg
            /\ UNCHANGED <<timeout_time_start, h_esc_autotune, h_esc_phase>>
       ELSE IF ek = "escape"
            THEN /\ timeout_time_start' = now
                 /\ msg_queue' = Append(msg_queue, "QUIT")
                 /\ clearAllEventBuffers
                 /\ h_first_msg' = IF h_first_msg = "none" THEN "QUIT" ELSE h_first_msg
                 /\ h_esc_autotune' = (h_esc_autotune \/ (pc = "autotune_wait" /\ ~autotune_ended))
                 /\ h_esc_phase' = (h_esc_phase \/ pc \in {"autotune_wait", "calib_wait"})
            ELSE UNCHANGED <<msg_queue, timeout_time_start, nativeEventBuffer, h_expected,
                            h_first_msg, h_esc_autotune, h_esc_phase>>
    /\ UNCHANGED <<clockVars, mainVars, trackerVars, latest_sample_timestamp,
                   latest_gaze_in_screen, latest_binocular_gaze_data,
                   latest_pupil_diameter_data, sampleVars, h_delivered, sdkVars, calFlags,
                   listening, res, cal_returned, cal_result, callVars, h_events,
                   h_progress, h_autotune_failed, h_unpumped>>

\* A session that counts the events of the EVENTS stream and ignores them
handleEvents_ignored(event_type, code) ==
    /\ pc \in SessionPcs
    /\ h_events < MaxEvents
    /\ h_events' = h_events + 1
    /\ UNCHANGED <<clockVars, mainVars, trackerVars, streamVars, sdkVars, calVars, callVars,
                   h_keys, h_first_msg, h_progress, h_autotune_failed, h_esc_autotune,
                   h_esc_phase, h_unpumped>>

\* _handleEvents: an event of the SDK's EVENTS stream delivered to the session.
\* The stream carries the device's events whatever started the procedure
\* they belong to, so an event may arrive at any sleep of the session.
handleEvents(event_type, code) ==
    /\ pc \in SessionPcs
    /\ h_events < MaxEvents
    /\ h_events' = h_events + 1
    /\ IF event_type = "PROCEDURE_ENDED"
       THEN /\ IF ~autotune_ended
               THEN /\ autotune_successful' = (autotune_successful \/ code = "SUCCESS")
                    /\ autotune_ended' = TRUE
                    /\ UNCHANGED <<calibration_successful, calibration_ended>>
               ELSE /\ calibration_successful' = (calibration_successful \/ code = "SUCCESS")
                    /\ calibration_ended' = TRUE
                    /\ UNCHANGED <<autotune_successful, autotune_ended>>
            /\ h_progress' = ProgressOnEnded(h_progress, code)
            /\ h_autotune_failed' = (h_autotune_failed \/ (h_progress = 1 /\ code # "SUCCESS"))
       ELSE UNCHANGED <<calFlags, h_progress, h_autotune_failed>>
    /\ h_blink_lost' = (h_blink_lost \/ (event_type = "BLINK" /\ is_reporting_events))
    /\ UNCHANGED <<clockVars, mainVars, events_handler, configVars, angleVars, markerVars,
                   connected, camera_started, is_reporting_events, streamVars, sdkVars,
                   timeout_time_start, msg_queue, listening, res, cal_returned, cal_result,
                   callVars, h_keys, h_first_msg, h_esc_autotune, h_esc_phase, h_unpumped>>

\* _handleCalibrationGuiResponse: the acknowledgement of request r.
handleCalibrationGuiResponse(r, code) ==
    /\ pc \in SessionPcs
    /\ r \in gui_cbs
    /\ gui_cbs' = gui_cbs \ {r}
    /\ IF code # "SUCCESS"
       THEN /\ autotune_ended' = TRUE
            /\ calibration_ended' = TRUE
            /\ UNCHANGED <<autotune_successful, calibration_successful>>
       ELSE UNCHANGED calFlags
    /\ h_autotune_failed' = (h_autotune_failed
                               \/ (r = "autotune_gui" /\ h_progress = 1 /\ code # "SUCCESS"))
    /\ UNCHANGED <<clockVars, mainVars, trackerVars, streamVars, requests, connect_cbs,
                   camera_cbs, timeout_time_start, msg_queue, listening, res, cal_returned,
                   cal_result, callVars, h_keys, h_events, h_first_msg, h_progress,
                   h_esc_autotune, h_esc_phase, h_unpumped>>

(***************************************************************************)
(* The calibration session on its own: runSetupProcedure has found the     *)
(* device connected and the camera started and is about to construct the   *)
(* session (eyetracker.py line 283).                                       *)
(***************************************************************************)
CalInit ==
    /\ now = 1
    /\ pc = "setup_calibrate"
    /\ cont = "none"
    /\ start_time = 0
    /\ screen_tracking \in BOOLEAN
    /\ aruco_info = {}
    /\ screen_board = {}
    /\ display_device = <<-1, 1, 1, -1>>
    /\ calibration_type \in CalibrationTypes
    /\ connected = TRUE
    /\ camera_started = TRUE
    /\ is_reporting_events = FALSE
    /\ latest_sample_timestamp = 0
    /\ latest_gaze_in_screen = <<0, 0>>
    /\ latest_binocular_gaze_data = <<0, 0, 0, 0, 0, 0>>
    /\ latest_pupil_diameter_data = <<0, 0>>
    /\ nativeEventBuffer = <<>>
    /\ latest_sample = None
    /\ latest_gaze_position = None
    /\ requests = <<"set_camera_user_settings">>
    /\ connect_cbs = 0
    /\ camera_cbs = 0
    /\ gui_cbs = {}
    /\ events_handler = "eyetracker"
    /\ autotune_ended = FALSE
    /\ calibration_ended = FALSE
    /\ autotune_successful = FALSE
    /\ calibration_successful = FALSE
    /\ timeout_time_start = 0
    /\ msg_queue = <<>>
    /\ listening = FALSE
    /\ res = FALSE
    /\ cal_returned = FALSE
    /\ cal_result = FALSE
    /\ last_call = [op |-> "setConnectionState", arg |-> TRUE, ret |-> TRUE, conn |-> FALSE]
    /\ prev_call = [op |-> "none", arg |-> FALSE, ret |-> FALSE, conn |-> FALSE]
    /\ h_calls = 0
    /\ h_keys = 0
    /\ h_events = 0
    /\ h_first_msg = "none"
    /\ h_progress = 0
    /\ h_autotune_failed = FALSE
    /\ h_esc_autotune = FALSE
    /\ h_esc_phase = FALSE
    /\ h_blink_lost = FALSE
    /\ h_unpumped = FALSE
    /\ vec = <<0, 0, -1>>
    /\ rotation_order = "XY"
    /\ angles = << <<0, 1>>, <<0, 1>> >>
    /\ h_delivered = NothingDelivered
    /\ h_expected = <<>>

\* The main greenlet's steps of the session
CalMain ==
    \/ runCalibration_enter
    \/ showSystemSetupMessageScreen_wake
    \/ runCalibration_start
    \/ runCalibration_autotune_wake
    \/ runCalibration_calibration_wake

CalNext ==
    \/ CalMain
    \/ \E ek \in Keys : handleEvent(ek)
    \/ \E e \in Events, code \in AckCodes : handleEvents(e, code)
    \/ \E r \in {"autotune_gui", "start_calibration_gui"}, code \in AckCodes :
           handleCalibrationGuiResponse(r, code)
    \/ Tick

CalSpec == CalInit /\ [][CalNext]_vars

\* gevent resumes a sleeping greenlet once its interval is over, and the
\* clock advances.
CalFairSpec == CalSpec /\ WF_vars(CalMain) /\ WF_vars(Tick)

(***************************************************************************)
(* The success path of the session: the only key is space, every request   *)
(* is acknowledged with SUCCESS, and the only events are one               *)
(* PROCEDURE_ENDED success after each request.                             *)
(***************************************************************************)
SuccessNext ==
    \/ CalMain
    \/ \E ek \in {" ", "space"} : handleEvent(ek)
    \/ (h_progress \in {1, 3} /\ handleEvents("PROCEDURE_ENDED", "SUCCESS"))
    \/ \E r \in {"autotune_gui", "start_calibration_gui"} :
           handleCalibrationGuiResponse(r, "SUCCESS")
    \/ Tick

\* On the success path the key and the events do come.
SuccessSpec ==
    /\ CalInit /\ [][SuccessNext]_vars
    /\ WF_vars(CalMain)
    /\ WF_vars(\E ek \in {" ", "space"} : handleEvent(ek))
    /\ WF_vars(h_progress \in {1, 3} /\ handleEvents("PROCEDURE_ENDED", "SUCCESS"))

(***************************************************************************)
(* runSetupProcedure on a connected device: the camera, the calibration    *)
(* session, and what the device is asked to do afterwards.                 *)
(***************************************************************************)
\* _handleEvents of a session whose runCalibration has returned: the SDK
\* keeps one handler per stream, and the session's stays registered.
handleEvents_returned(event_type, code) ==
    /\ pc = "idle"
    /\ events_handler = "session"
    /\ h_events < MaxEvents
    /\ h_events' = h_events + 1
    /\ IF event_type = "PROCEDURE_ENDED"
       THEN IF ~autotune_ended
            THEN /\ autotune_successful' = (autotune_successful \/ code = "SUCCESS")
                 /\ autotune_ended' = TRUE
                 /\ UNCHANGED <<calibration_successful, calibration_ended>>
            ELSE /\ calibration_successful' = (calibration_successful \/ code = "SUCCESS")
                 /\ calibration_ended' = TRUE
                 /\ UNCHANGED <<autotune_successful, autotune_ended>>
       ELSE UNCHANGED calFlags
    /\ h_blink_lost' = (h_blink_lost \/ (event_type = "BLINK" /\ is_reporting_events))
    /\ UNCHANGED <<clockVars, mainVars, events_handler, screen_tracking, aruco_info,
                   screen_board, display_device, calibration_type, angleVars, connected,
                   camera_started, is_reporting_events, streamVars, sdkVars,
                   timeout_time_start, msg_queue, listening, res, cal_returned, cal_result,
                   callVars, h_keys, h_first_msg, h_progress, h_autotune_failed,
                   h_esc_autotune, h_esc_phase, h_unpumped>>

\* A connected, idle device: as __init__ leaves it, or recording with screen
\* tracking as a successful setRecordingState(True) leaves it.  The
\* experiment has two API calls left to make.
SetupInit ==
    /\ now = 1
    /\ pc = "idle"
    /\ cont = "none"
    /\ start_time = 1
    /\ screen_tracking \in BOOLEAN
    /\ aruco_info = MARKER_INFO_DEFAULT
    /\ screen_board = {}
    /\ display_device = <<-1, 1, 1, -1>>
    /\ calibration_type = "NINE_POINTS"
    /\ connected = TRUE
    /\ is_reporting_events \in (IF screen_tracking THEN BOOLEAN ELSE {FALSE})
    /\ camera_started = is_reporting_events
    /\ latest_sample_timestamp = 0
    /\ latest_gaze_in_screen = <<0, 0>>
    /\ latest_binocular_gaze_data = <<0, 0, 0, 0, 0, 0>>
    /\ latest_pupil_diameter_data = <<0, 0>>
    /\ nativeEventBuffer = <<>>
    /\ latest_sample = None
    /\ latest_gaze_position = None
    /\ requests = IF is_reporting_events
                  THEN <<"start_camera_capture", "start_screen_tracking">>
                  ELSE connect_requests \o stream_control_requests
    /\ connect_cbs = 0
    /\ camera_cbs = 0
    /\ gui_cbs = {}
    /\ events_handler = "eyetracker"
    /\ autotune_ended = FALSE
    /\ calibration_ended = FALSE
    /\ autotune_successful = FALSE
    /\ calibration_successful = FALSE
    /\ timeout_time_start = 0
    /\ msg_queue = <<>>
    /\ listening = FALSE
    /\ res = FALSE
    /\ cal_returned = FALSE
    /\ cal_result = FALSE
    /\ last_call = IF is_reporting_events
                   THEN Returned("setRecordingState", TRUE, TRUE, TRUE)
                   ELSE Returned("setConnectionState", TRUE, TRUE, FALSE)
    /\ prev_call = IF is_reporting_events
                   THEN Returned("setConnectionState", TRUE, TRUE, FALSE)
                   ELSE Returned("none", FALSE, FALSE, FALSE)
    /\ h_calls = MaxCalls - 2
    /\ h_keys = 0
    /\ h_events = 0
    /\ h_first_msg = "none"
    /\ h_progress = 0
    /\ h_autotune_failed = FALSE
    /\ h_esc_autotune = FALSE
    /\ h_esc_phase = FALSE
    /\ h_blink_lost = FALSE
    /\ h_unpumped = FALSE
    /\ vec = <<0, 0, -1>>
    /\ rotation_order = "XY"
    /\ angles = << <<0, 1>>, <<0, 1>> >>
    /\ h_delivered = NothingDelivered
    /\ h_expected = <<>>

SetupNext ==
    \/ runSetupProcedure
    \/ start_camera_wake
    \/ \E response \in AckCodes : handle_camera_start_response(response)
    \/ CalMain
    \/ \E ek \in Keys : handleEvent(ek)
    \/ \E e \in Events, code \in AckCodes : handleEvents(e, code)
    \/ \E r \in {"autotune_gui", "start_calibration_gui"}, code \in AckCodes :
           handleCalibrationGuiResponse(r, code)
    \/ runSetupProcedure_return
    \/ \E e \in Events, code \in AckCodes : handleEvents_returned(e, code)
    \/ \E e \in Events, d \in BlinkData : handle_events(e, d)
    \/ \E enable \in {FALSE} : setConnectionState(enable)
    \/ Tick

SetupSpec == SetupInit /\ [][SetupNext]_vars


(***************************************************************************)
(* helpers.vector_to_angles                                                *)
(*                                                                         *)
(* An angle is kept as a point <<s, c>> other than the origin: it is the   *)
(* angle np.arctan2(s, c), whose sine and cosine are s and c divided by    *)
(* the length of <<s, c>>.  Two points on one ray from the origin are the  *)
(* same angle.  The vectors are chosen so that every square root the       *)
(* function takes is a whole number.                                       *)
(***************************************************************************)
\* The coordinates of the vectors
Coords == {-4, -3, 0, 3, 4}

IsSquare(n) == \E k \in 0..n : k * k = n

\* np.sqrt of a square
sqrt(n) == CHOOSE k \in 0..n : k * k = n

\* EulerRotationOrder
EulerRotationOrder == {"XY", "YX"}

\* The vectors and orders vector_to_angles is called with: no zero vector,
\* and the root the order takes is whole
AngleInputs ==
    {in \in (Coords \X Coords \X Coords) \X EulerRotationOrder :
        /\ in[1] # <<0, 0, 0>>
        /\ IF in[2] = "XY"
           THEN IsSquare(in[1][2] * in[1][2] + in[1][3] * in[1][3])
           ELSE IsSquare(in[1][1] * in[1][1] + in[1][3] * in[1][3])}

\* np.arctan2(0, 0) is 0 or pi according to the sign of the zero that is its
\* second argument
ZeroAngles == {<<0, 1>>, <<0, -1>>}

\* np.arctan2(s, c); zero is what it returns for s = c = 0
arctan2(s, c, zero) == IF s = 0 /\ c = 0 THEN zero ELSE <<s, c>>

\* A conversion that takes Z to point forward
vector_to_angles_z_forward(xpos, ypos, zpos, order, zero) ==
    IF order = "YX"
    THEN << arctan2(xpos, zpos, zero), arctan2(ypos, sqrt(xpos * xpos + zpos * zpos), zero) >>
    ELSE << arctan2(xpos, sqrt(ypos * ypos + zpos * zpos), zero), arctan2(ypos, zpos, zero) >>

\* vector_to_angles: <<azimuth, elevation>>
vector_to_angles(xpos, ypos, zpos, order, zero) ==
    IF order = "YX"
    THEN << arctan2(xpos, 0 - zpos, zero),
            arctan2(ypos, sqrt(xpos * xpos + zpos * zpos), zero) >>
    ELSE << arctan2(xpos, sqrt(ypos * ypos + zpos * zpos), zero),
            arctan2(ypos, 0 - zpos, zero) >>

\* A call of vector_to_angles
vector_to_angles_call(v, order, zero) ==
    /\ vec' = v
    /\ rotation_order' = order
    /\ angles' = vector_to_angles(v[1], v[2], v[3], order, zero)
    /\ UNCHANGED <<clockVars, mainVars, configVars, markerVars, eventVars, connected,
                   camera_started, is_reporting_events, streamVars, sdkVars, calVars,
                   callVars, calHist>>

AnglesNext ==
    \E in \in AngleInputs, zero \in ZeroAngles : vector_to_angles_call(in[1], in[2], zero)

AnglesSpec == StreamInit /\ [][AnglesNext]_vars

(***************************************************************************)
(* Properties of the calibration session.                                  *)
(***************************************************************************)
Issued(r) == \E i \in DOMAIN requests : requests[i] = r

\* The last two API calls were setConnectionState(True), and the second has
\* returned.
TwiceConnected ==
    /\ pc = "idle"
    /\ last_call.op = "setConnectionState" /\ last_call.arg
    /\ prev_call.op = "setConnectionState" /\ prev_call.arg

\* The last API call registered a stream handler or issued a start request.
Reconnected ==
    \E i \in DOMAIN requests : requests[i] \in {connect_requests[j] : j \in DOMAIN connect_requests}

\* C1: on a connected device with screen tracking disabled,
\* setRecordingState(True) leaves recording enabled.
C1_RecordingOnWithoutScreenTracking ==
    (/\ pc = "idle"
     /\ last_call.op = "setRecordingState" /\ last_call.arg
     /\ last_call.conn
     /\ ~screen_tracking)
    => (is_reporting_events /\ last_call.ret)

\* C10 as stated: the second of two setConnectionState(True) calls in a row
\* registers no handler, issues no start request and returns what the first
\* call returned, whether the first call connected or timed out.
C10_SecondConnectIsNoOp ==
    TwiceConnected => (~Reconnected /\ last_call.ret = prev_call.ret)

\* C10 amended: when the device is connected as the second of two
\* setConnectionState(True) calls in a row is made, which it is whenever the
\* first call returned true, the second call registers no handler, issues no
\* start request and returns true.
C10_SecondConnectIsNoOpWhenConnected ==
    (TwiceConnected /\ (last_call.conn \/ prev_call.ret))
    => (~Reconnected /\ last_call.ret)

C10_Witness ==
    TwiceConnected /\ prev_call.ret /\ last_call.conn /\ last_call.ret /\ requests = <<>>

\* The last API call was op(arg), and it has returned.
LastCall(op, arg) == pc = "idle" /\ last_call.op = op /\ last_call.arg = arg

\* C11: setConnectionState(True) always returns; it returns true only with
\* the connected flag set, which a connect callback without error alone sets,
\* and false otherwise.
C11_ConnectTerminates ==
    /\ (pc = "connect_wait") ~> (pc = "idle")
    /\ [](LastCall("setConnectionState", TRUE) => (last_call.ret => connected))
    /\ [][pc = "connect_wait" /\ pc' = "idle" => last_call'.ret = connected]_vars
    /\ [][~connected /\ connected' => handle_connect(FALSE)]_vars

\* setConnectionState(True) has returned false while its connect callback is
\* still outstanding.
C11_Witness ==
    /\ LastCall("setConnectionState", TRUE)
    /\ ~last_call.ret /\ ~last_call.conn
    /\ ~connected
    /\ connect_cbs > 0

\* C13: setConnectionState(False) on a disconnected device issues no request,
\* changes no flag and returns false.
C13_DisconnectWhenDisconnected ==
    [][(/\ pc = "idle" /\ ~connected
        /\ h_calls' = h_calls + 1
        /\ last_call'.op = "setConnectionState" /\ ~last_call'.arg /\ pc' = "idle")
       => (/\ requests' = <<>>
           /\ ~last_call'.ret
           /\ UNCHANGED <<connected, camera_started, is_reporting_events, screen_tracking,
                          aruco_info, connect_cbs, camera_cbs>>)]_vars

\* setConnectionState(False) has returned on a device that had never connected.
C13_Witness ==
    /\ LastCall("setConnectionState", FALSE)
    /\ ~last_call.conn /\ ~last_call.ret
    /\ ~connected
    /\ requests = <<>>

\* The request a is in the log of the current call before the request b
IssuedBefore(a, b) ==
    \E i, j \in DOMAIN requests : i < j /\ requests[i] = a /\ requests[j] = b

\* The camera is capturing: the device has acknowledged a start of the camera
\* and the latest call has not asked to stop it (before the first call, and
\* between the first and the second, nothing else can have stopped it).
CameraActive == camera_started /\ ~Issued("stop_camera_capture")

\* C12: setConnectionState(False) on a connected device whose camera is
\* capturing issues stop_screen_tracking and stop_camera_capture before shutdown.
C12_StopsBeforeShutdown ==
    [][(/\ pc = "idle" /\ connected /\ CameraActive
        /\ h_calls' = h_calls + 1
        /\ last_call'.op = "setConnectionState" /\ ~last_call'.arg)
       => (/\ IssuedBefore("stop_screen_tracking", "shutdown")'
           /\ IssuedBefore("stop_camera_capture", "shutdown")')]_vars

\* C16: no blink delivered while recording is on has been dropped instead of
\* being buffered as a BLINK_END event.
C16_EveryBlinkBuffered == ~h_blink_lost

\* C19: runSetupProcedure returns a boolean on every path.
C19_ReturnsBoolean ==
    LastCall("runSetupProcedure", TRUE) => last_call.ret \in {"True", "False"}

\* C22: when runCalibration has returned, the session is no longer a listener
\* of the keyboard device and the event buffers are empty.
C22_ListenerRemovedOnReturn ==
    cal_returned => (~listening /\ nativeEventBuffer = <<>>)

\* C23: a setRecordingState(True) that follows a setRecordingState(False) and
\* turns recording on issues start_camera_capture before start_screen_tracking.
C23_RestartStartsCamera ==
    (/\ LastCall("setRecordingState", TRUE) /\ last_call.ret
     /\ prev_call.op = "setRecordingState" /\ ~prev_call.arg)
    => IssuedBefore("start_camera_capture", "start_screen_tracking")

\* The step issues the request r: the log of a new call holds it, or the part
\* added to the log of the call in progress does.
IssuedNow(r) ==
    \E i \in DOMAIN requests' :
        /\ requests'[i] = r
        /\ h_calls' = h_calls => i > Len(requests)

\* C24: a start_screen_tracking request is issued only while the
\* camera-started flag is true.
C24_ScreenTrackingOnlyWithCamera ==
    [][IssuedNow("start_screen_tracking") => camera_started]_vars

\* C25: within a call, no stop_camera_capture request follows a
\* start_screen_tracking request without a stop_screen_tracking request in
\* between.
C25_CameraOnWhileScreenTracking ==
    ~\E i, j \in DOMAIN requests :
        /\ i < j
        /\ requests[i] = "start_screen_tracking"
        /\ requests[j] = "stop_camera_capture"
        /\ \A k \in i..j : requests[k] # "stop_screen_tracking"

\* C27: a callback of the per-eye gaze, gaze-in-screen or pupil-diameter
\* channel adds no event to the buffer and changes no cache but its own
\* channel's: the other two caches and the latest primary timestamp stay.
C27_SecondaryChannelsOnlyCache ==
    [][h_delivered' # h_delivered
       => (/\ UNCHANGED <<nativeEventBuffer, latest_sample_timestamp>>
           /\ h_delivered'.screen = h_delivered.screen => UNCHANGED latest_gaze_in_screen
           /\ h_delivered'.per_eye = h_delivered.per_eye
                  => UNCHANGED latest_binocular_gaze_data
           /\ h_delivered'.pupil = h_delivered.pupil
                  => UNCHANGED latest_pupil_diameter_data)]_vars

\* All three channels have delivered during recording, and the buffer is
\* empty and no primary timestamp recorded.
C27_Witness ==
    /\ is_reporting_events
    /\ h_delivered.screen # <<>> /\ h_delivered.per_eye # <<>> /\ h_delivered.pupil # <<>>
    /\ latest_binocular_gaze_data = h_delivered.per_eye
    /\ latest_pupil_diameter_data = h_delivered.pupil
    /\ nativeEventBuffer = <<>>
    /\ latest_sample_timestamp = 0

\* C28: the position cached for a normalized point (gx, gy) is
\* (width * (gx - 0.5), height * (0.5 - gy)) for the display's coordinate
\* bounds, (0, 0) for the normalized centre, and (0, 0) for every point when
\* there is no display device.  Positions are counted in halves.
C28_DisplayCoords ==
    h_delivered.screen # <<>>
    => /\ display_device = None => latest_gaze_in_screen = <<0, 0>>
       /\ display_device # None
              => LET width == display_device[3] - display_device[1]
                     height == display_device[2] - display_device[4]
                 IN  /\ latest_gaze_in_screen[1] = width * (h_delivered.screen[1] - 1)
                     /\ latest_gaze_in_screen[2] = height * (1 - h_delivered.screen[2])
       /\ h_delivered.screen = <<1, 1>> => latest_gaze_in_screen = <<0, 0>>

\* With a display device, the centre was delivered after a sample taken at
\* another position had been translated.
C28_Witness ==
    /\ display_device # None
    /\ h_delivered.screen = <<1, 1>>
    /\ latest_gaze_in_screen = <<0, 0>>
    /\ latest_gaze_position = <<-2, -2>>

\* How many times the request r is in the log
Count(r) == Cardinality({i \in DOMAIN requests : requests[i] = r})

\* C26: a setRecordingState(True) that turned recording on has issued no
\* register_screen_board request if the marker table is empty, and the table
\* is the empty default; otherwise it has issued exactly one, carrying one
\* marker for each id of the table.
C26_RegisterScreenBoard ==
    (LastCall("setRecordingState", TRUE) /\ last_call.ret)
    => IF aruco_info = {}
       THEN Count("register_screen_board") = 0 /\ aruco_info = MARKER_INFO_DEFAULT
       ELSE Count("register_screen_board") = 1 /\ screen_board = aruco_info

\* Recording was turned on with a marker sheet of two markers loaded.
C26_Witness ==
    /\ LastCall("setRecordingState", TRUE) /\ last_call.ret
    /\ aruco_info = {0, 1}
    /\ screen_board = {0, 1}
    /\ IssuedBefore("register_screen_board", "start_screen_tracking")

\* C29: no configured calibration type makes runCalibration end with an
\* exception, and a start-calibration request carries a point count of the
\* table of schemes.
C29_StartCalibrationForEveryType ==
    /\ pc # "cal_raised"
    /\ Issued("start_calibration_gui") => num_points \in {3, 5, 9, 13}

\* C30: no wait loop of the session has slept without calling _msgPump.
C30_PumpInEveryWaitLoop == ~h_unpumped

\* The length of the point that stands for an angle
Length(a) == sqrt(a[1] * a[1] + a[2] * a[2])

\* The points a and b stand for the same angle.
SameAngle(a, b) == a[1] * b[2] = a[2] * b[1] /\ a[1] * b[1] + a[2] * b[2] > 0

\* The direction of azimuth az and elevation el under the order's convention,
\* times Length(az) * Length(el):
\*   XY  (sin az, cos az sin el, -cos az cos el)
\*   YX  (cos el sin az, sin el, -cos el cos az)
Recombined(az, el, order) ==
    IF order = "XY"
    THEN <<az[1] * Length(el), az[2] * el[1], 0 - az[2] * el[2]>>
    ELSE <<el[2] * az[1], el[1] * Length(az), 0 - el[2] * az[2]>>

\* The vectors u and v point the same way.
SameDirection(u, v) ==
    /\ u[1] * v[2] = u[2] * v[1]
    /\ u[1] * v[3] = u[3] * v[1]
    /\ u[2] * v[3] = u[3] * v[2]
    /\ u[1] * v[1] + u[2] * v[2] + u[3] * v[3] > 0

\* C21: for a non-zero vector (x, y, z), vector_to_angles returns, for XY,
\* azimuth = atan2(x, sqrt(y^2 + z^2)) and elevation = atan2(y, -z), for YX,
\* azimuth = atan2(x, -z) and elevation = atan2(y, sqrt(x^2 + z^2)), and the
\* direction recombined from them under the order's convention is that of
\* the vector.
C21_AnglesRoundTrip ==
    LET x == vec[1]
        y == vec[2]
        z == vec[3]
        azimuth == IF rotation_order = "XY" THEN <<x, sqrt(y * y + z * z)>> ELSE <<x, 0 - z>>
        elevation == IF rotation_order = "XY" THEN <<y, 0 - z>> ELSE <<y, sqrt(x * x + z * z)>>
    IN  /\ IF azimuth = <<0, 0>> THEN angles[1] \in ZeroAngles
           ELSE SameAngle(angles[1], azimuth)
        /\ IF elevation = <<0, 0>> THEN angles[2] \in ZeroAngles
           ELSE SameAngle(angles[2], elevation)
        /\ SameDirection(Recombined(angles[1], angles[2], rotation_order), vec)

\* vector_to_angles was called with the order YX and a vector that points
\* right, up and forward.
C21_Witness ==
    /\ rotation_order = "YX"
    /\ vec = <<3, 4, -4>>
    /\ angles = << <<3, 4>>, <<4, 5>> >>

\* C20: without marker data, setRecordingState(True) issues no
\* start-screen-tracking request.
C20_NoScreenTrackingWithoutMarkers ==
    (LastCall("setRecordingState", TRUE) /\ aruco_info = MARKER_INFO_DEFAULT)
    => ~Issued("start_screen_tracking")

\* The fraction q is the number of halves n.
IsHalves(q, n) == 2 * q[1] = n * q[2]

\* C14: while the device is not recording, getLastSample() and
\* getLastGazePosition() return None.
C14_NoSampleWhileNotRecording ==
    ~is_reporting_events => (latest_sample = None /\ latest_gaze_position = None)

\* C15: a translation of a binocular sample leaves its host record in
\* getLastSample() and its gaze-in-screen position in getLastGazePosition();
\* a translation of a blink changes neither.
C15_LastSampleIsLastTranslated ==
    [][Len(nativeEventBuffer') < Len(nativeEventBuffer)
       => IF Head(nativeEventBuffer)[1] = "BINOCULAR_EYE_SAMPLE"
          THEN /\ latest_sample' = bino_sample(Head(nativeEventBuffer))
               /\ latest_gaze_position' = <<Head(nativeEventBuffer)[7],
                                            Head(nativeEventBuffer)[8]>>
          ELSE UNCHANGED <<latest_sample, latest_gaze_position>>]_vars

\* A sample was translated during recording, the gaze-in-screen cache has
\* changed since, and a blink is next in the buffer.
C15_Witness ==
    /\ is_reporting_events
    /\ latest_sample # None
    /\ latest_gaze_position = <<2, 0>>
    /\ latest_sample[3] = 2 /\ latest_sample[4] = 0
    /\ latest_gaze_in_screen = <<-2, -2>>
    /\ nativeEventBuffer # <<>>
    /\ nativeEventBuffer[1][1] = "BLINK_END"

C18_RoundTrip ==
    (display_device # None /\ h_delivered.screen # <<>>)
    => LET back == displayToEyeTrackerCoords(latest_gaze_in_screen[1], latest_gaze_in_screen[2])
       IN  /\ IsHalves(back[1], h_delivered.screen[1])
           /\ IsHalves(back[2], h_delivered.screen[2])

\* C2: the sample a primary gaze event puts in the buffer carries, for each
\* of the other three channels, the values its callback delivered last before
\* that event (zeros if it delivered none), and no later callback changes them.
C2_SampleCarriesLastDelivered ==
    \A i \in DOMAIN nativeEventBuffer :
        nativeEventBuffer[i][1] = "BINOCULAR_EYE_SAMPLE"
        => SubSeq(nativeEventBuffer[i], 7, 16) = h_expected[i]

\* A buffered sample whose three channels all delivered, and callbacks that
\* delivered other values after it was buffered.
C2_Witness ==
    /\ nativeEventBuffer # <<>>
    /\ nativeEventBuffer[1][1] = "BINOCULAR_EYE_SAMPLE"
    /\ SubSeq(nativeEventBuffer[1], 7, 16) = <<-2, -2>> \o <<1, 2, 3, 4, 5, 6>> \o <<3, 4>>
    /\ latest_gaze_in_screen = <<2, 0>>
    /\ latest_binocular_gaze_data = <<6, 5, 4, 3, 2, 1>>

\* C3: no native event enters the buffer while the device is not reporting.
C3_NothingBufferedWhileNotReporting ==
    [][~is_reporting_events => Len(nativeEventBuffer') <= Len(nativeEventBuffer)]_vars

\* A primary gaze event was handled while the device was not reporting, and
\* the buffer is empty.
C3_Witness ==
    /\ ~is_reporting_events
    /\ latest_sample_timestamp # 0
    /\ h_expected = <<>>
    /\ nativeEventBuffer = <<>>
    /\ last_call = Returned("setRecordingState", FALSE, FALSE, TRUE)

\* C4: runCalibration returns true only if an autotune request was issued and
\* ended with success and, after that, a start-calibration request was issued
\* and ended with success.
C4_TrueOnlyIfBothPhasesSucceeded ==
    (cal_returned /\ cal_result) => h_progress = 4

\* C5: if escape is the first key message of the session, runCalibration
\* returns false and issues neither an autotune nor a start-calibration request.
C5_EscapeFirstReturnsFalse ==
    (cal_returned /\ h_first_msg = "QUIT")
        => (~cal_result /\ ~Issued("autotune_gui") /\ ~Issued("start_calibration_gui"))

\* C6: after space, if the autotune phase ends in failure, runCalibration
\* returns false and issues no start-calibration request.
C6_AutotuneFailureReturnsFalse ==
    (cal_returned /\ res /\ h_autotune_failed)
        => (~cal_result /\ ~Issued("start_calibration_gui"))

\* C7: on the success path, where the start-calibration request can be issued
\* (the configured type is a scheme of the table), runCalibration eventually
\* returns true.
C7_SuccessPathReturnsTrue ==
    num_points_bound => <>(cal_returned /\ cal_result)

C7_Witness ==
    cal_returned /\ cal_result /\ h_progress = 4 /\ h_first_msg = "SPACE_KEY_ACTION"

\* C8: once escape has been pressed during the autotune or calibration wait,
\* runCalibration eventually returns.
C8_EscapeLeadsToReturn ==
    h_esc_phase ~> cal_returned

\* C9: once escape has been pressed during the autotune phase, no
\* start-calibration request is issued and runCalibration does not return true.
C9_CancelIsOneDirectional ==
    h_esc_autotune => (~Issued("start_calibration_gui") /\ ~(cal_returned /\ cal_result))

\* C31: once setConnectionState(False) has returned, and until the next API
\* call, the device does not report connected, whatever callbacks arrive.
C31_DisconnectedStaysDisconnected ==
    LastCall("setConnectionState", FALSE) => ~isConnected

\* C32: recording is never on while the device is disconnected.
C32_RecordingImpliesConnected ==
    is_reporting_events => isConnected

\* C33: a setRecordingState(True) made on a device that is not connected
\* returns false, leaves recording off and issues neither a
\* start_camera_capture nor a start_screen_tracking request.
C33_NoRecordingWhenDisconnected ==
    (LastCall("setRecordingState", TRUE) /\ ~last_call.conn)
    => (/\ ~last_call.ret
        /\ ~is_reporting_events
        /\ ~Issued("start_camera_capture")
        /\ ~Issued("start_screen_tracking"))

\* setRecordingState(True) has returned on a device with screen tracking
\* enabled whose connect had timed out.
C33_Witness ==
    /\ LastCall("setRecordingState", TRUE)
    /\ ~last_call.conn /\ ~last_call.ret
    /\ screen_tracking /\ ~connected
    /\ ~is_reporting_events
    /\ requests = <<"stop_camera_capture", "stop_screen_tracking">>
    /\ prev_call = Returned("setConnectionState", TRUE, FALSE, FALSE)

\* The step leaves the autotune wait loop of runCalibration (lines 105-106),
\* or passes it without a sleep.
AutotuneLoopExits ==
    /\ pc \in {"hide", "autotune_wait"}
    /\ pc = "hide" => res
    /\ pc' \notin {"hide", "autotune_wait"}

\* C34: when the autotune wait loop exits, a start_calibration_gui request is
\* issued if the autotune success event has been received, whether or not
\* the grace timeout has elapsed as well, and none is issued if it has not.
C34_AckWinsOverTimeout ==
    [][AutotuneLoopExits
       => IF autotune_successful
          THEN IssuedNow("start_calibration_gui")
          ELSE ~Issued("start_calibration_gui")']_vars

\* runSetupProcedure has returned after a calibration session.
ReturnedAfterSession ==
    /\ LastCall("runSetupProcedure", TRUE)
    /\ last_call.conn
    /\ last_call.ret \in {"True", "False"}

\* C35: when runSetupProcedure has returned after a calibration session:
\* without screen tracking a stop_camera_capture request has been issued;
\* with screen tracking and a successful calibration a start_screen_tracking
\* request and no stop_camera_capture request; after a calibration that
\* failed or was aborted a stop_camera_capture request.
C35_AfterCalibration ==
    ReturnedAfterSession
    => (/\ ~screen_tracking => Issued("stop_camera_capture")
        /\ (screen_tracking /\ last_call.ret = "True")
               => (Issued("start_screen_tracking") /\ ~Issued("stop_camera_capture"))
        /\ last_call.ret = "False" => Issued("stop_camera_capture"))

\* With screen tracking, runSetupProcedure has returned after a calibration
\* that was aborted by escape, having asked for screen tracking and then for
\* the camera to stop.
C35_Witness ==
    /\ ReturnedAfterSession
    /\ screen_tracking
    /\ last_call.ret = "False"
    /\ h_first_msg = "QUIT"
    /\ IssuedBefore("start_screen_tracking", "stop_camera_capture")

\* C36: the record a translation makes of a binocular sample holds, for the
\* left and for the right eye alike, the gaze-in-screen x and y the sample
\* was buffered with, and one gaze depth taken from vec_z in both.
C36_SharedGazeFields ==
    [][(/\ Len(nativeEventBuffer') < Len(nativeEventBuffer)
        /\ Head(nativeEventBuffer)[1] = "BINOCULAR_EYE_SAMPLE")
       => LET e == Head(nativeEventBuffer)
              s == latest_sample'
          IN  /\ s[3] = e[7] /\ s[8] = e[7]
              /\ s[4] = e[8] /\ s[9] = e[8]
              /\ s[5] = s[10]
              /\ s[5] \in {e[5], 0 - e[5]}]_vars

====
